---- MODULE Spec2Model ----
(***************************************************************************)
(* Tiny BASIC (GaryLuck/rust-basic): the tree-walking interpreter of       *)
(* src/interpreter.rs over the syntax tree of src/ast.rs, the tokenizer of *)
(* src/lexer.rs, the recursive-descent parser of src/parser.rs and the     *)
(* renderer format_line / parse_program of src/main.rs.                    *)
(*                                                                         *)
(* Text is a TLA+ string; a character is a string of length one.  Values   *)
(* are Rust i32: every arithmetic operation is computed inside the 32-bit  *)
(* range, and an operation that leaves it either panics (overflow checks   *)
(* on, the debug profile) or wraps (overflow checks off, the release       *)
(* profile).  The profile is the variable build.                           *)
(***************************************************************************)
EXTENDS Integers, Sequences, FiniteSets

VARIABLES
    build,        \* "debug" | "release": are arithmetic overflow checks compiled in
    program,      \* Interpreter.program : Vec<Line>
    variables,    \* Interpreter.variables : HashMap<char, i32>
    arrays,       \* Interpreter.arrays : HashMap<char, Vec<i32>>
    line_index,   \* Interpreter.line_index
    done,         \* Interpreter.done
    output,       \* the lines println! has emitted for the current Interpreter
    pc,           \* where the caller of the Interpreter is
    result,       \* what run returned: None, Ok, Err(e) or Panic
    runs,         \* how many Interpreters the shell has constructed
    steps,        \* statements executed by the current run
    assigned,     \* letters a LET has stored into since construction
    last,         \* the statement executed last and what it returned
    history,      \* output and result of every run that returned
    backward,     \* a jump of the current run landed at or before its own line
    source,       \* the text given to parse
    position,     \* Lexer.position: characters of source consumed
    tokens,       \* the tokens collected by tokenize, then the Parser's tokens
    cursor,       \* tokens the Parser has consumed
    lines,        \* the lines collected by Parser::parse_program
    parsed,       \* what parse returned: None, Ok(lines), Err(e) or Panic
    ppc,          \* where parse is
    pass,         \* 1: parse of the text, 2: parse of its rendering
    first,        \* what the parse of the text returned
    collected     \* the lines parse_program had collected before sorting

interp_vars == <<program, variables, arrays, line_index, done, output, pc,
                 result, runs, steps, assigned, last, history, backward>>

parse_vars == <<source, position, tokens, cursor, lines, parsed, ppc, pass,
                first, collected>>

vars == <<build, interp_vars, parse_vars>>

----------------------------------------------------------------------------
(* Bounds *)

MaxLines == 3      \* generated programs have at most this many lines
MaxSteps == 8      \* statements one run may execute before it is cut off
MaxRuns  == 2      \* Interpreters constructed for the same program
MaxSrcLines == 2   \* generated texts have at most this many source lines

----------------------------------------------------------------------------
(* i32 *)

MaxI32 == 2147483647
MinI32 == -2147483647 - 1

Letters == {"A", "B", "C", "D", "E", "F", "G", "H", "I", "J", "K", "L", "M",
            "N", "O", "P", "Q", "R", "S", "T", "U", "V", "W", "X", "Y", "Z"}

Ok(v)  == [t |-> "Ok", v |-> v]
Err(e) == [t |-> "Err", e |-> e]
Panic(m) == [t |-> "Panic", m |-> m]

None    == <<>>
Some(x) == <<x>>

DivisionByZero          == [kind |-> "DivisionByZero"]
UndefinedVariable(c)    == [kind |-> "UndefinedVariable", name |-> c]
ArrayNotDimensioned(c)  == [kind |-> "ArrayNotDimensioned", name |-> c]
InvalidLineNumber(n)    == [kind |-> "InvalidLineNumber", line |-> n]
IndexOutOfBounds(a, i, s) ==
    [kind |-> "IndexOutOfBounds", name |-> a, index |-> i, size |-> s]

(* l + r leaves the i32 range *)
AddOverflows(l, r) ==
    \/ r > 0 /\ l > MaxI32 - r
    \/ r < 0 /\ l < MinI32 - r

(* l + r modulo 2^32, as a two's complement i32 *)
WrappingAdd(l, r) ==
    IF r > 0 /\ l > MaxI32 - r THEN (l + MinI32) + (r + MinI32)
    ELSE IF r < 0 /\ l < MinI32 - r THEN (l - MinI32) + (r - MinI32)
    ELSE l + r

SubOverflows(l, r) ==
    \/ r < 0 /\ l > MaxI32 + r
    \/ r > 0 /\ l < MinI32 + r

WrappingSub(l, r) ==
    IF r < 0 /\ l > MaxI32 + r THEN (l + MinI32) - (r - MinI32)
    ELSE IF r > 0 /\ l < MinI32 + r THEN (l - MinI32) - (r + MinI32)
    ELSE l - r

MulOverflows(l, r) ==
    IF l = 0 \/ r = 0 THEN FALSE
    ELSE IF l = -1 THEN r = MinI32
    ELSE IF r = -1 THEN l = MinI32
    ELSE IF l > 0 /\ r > 0 THEN l > MaxI32 \div r
    ELSE IF l > 0 /\ r < 0 THEN r < (MinI32 + l - 1) \div l
    ELSE IF l < 0 /\ r > 0 THEN l < (MinI32 + r - 1) \div r
    ELSE IF l = MinI32 \/ r = MinI32 THEN TRUE
    ELSE (-l) > MaxI32 \div (-r)

(* l * r modulo 2^32 by doubling, every intermediate value an i32 *)
RECURSIVE WrappingMul(_, _)
WrappingMul(l, r) ==
    IF r = 0 THEN 0
    ELSE IF r = MinI32 THEN (IF l % 2 = 1 THEN MinI32 ELSE 0)
    ELSE IF r < 0 THEN WrappingSub(0, WrappingMul(l, -r))
    ELSE WrappingAdd(WrappingMul(WrappingAdd(l, l), r \div 2),
                     IF r % 2 = 1 THEN l ELSE 0)

(* l / r of Rust: the quotient rounded toward zero; r # 0, not MinI32 / -1 *)
TruncDiv(l, r) ==
    IF r = MinI32 THEN (IF l = MinI32 THEN 1 ELSE 0)
    ELSE IF r > 0
         THEN (IF l < 0 /\ l % r # 0 THEN (l \div r) + 1 ELSE l \div r)
         ELSE LET p == -r
                  q == IF l < 0 /\ l % p # 0 THEN (l \div p) + 1 ELSE l \div p
              IN  -q

I32Add(l, r, bld) ==
    IF AddOverflows(l, r)
    THEN (IF bld = "debug" THEN Panic("attempt to add with overflow")
          ELSE Ok(WrappingAdd(l, r)))
    ELSE Ok(l + r)

I32Sub(l, r, bld) ==
    IF SubOverflows(l, r)
    THEN (IF bld = "debug" THEN Panic("attempt to subtract with overflow")
          ELSE Ok(WrappingSub(l, r)))
    ELSE Ok(l - r)

I32Mul(l, r, bld) ==
    IF MulOverflows(l, r)
    THEN (IF bld = "debug" THEN Panic("attempt to multiply with overflow")
          ELSE Ok(WrappingMul(l, r)))
    ELSE Ok(l * r)

I32Div(l, r) ==
    IF r = 0 THEN Err(DivisionByZero)
    ELSE IF l = MinI32 /\ r = -1 THEN Panic("attempt to divide with overflow")
    ELSE Ok(TruncDiv(l, r))

Bool(b) == IF b THEN 1 ELSE 0

----------------------------------------------------------------------------
(* Syntax tree, src/ast.rs *)

Number(n)          == [k |-> "Number", n |-> n]
Variable(c)        == [k |-> "Variable", c |-> c]
ArrayAccess(c, i)  == [k |-> "ArrayAccess", c |-> c, index |-> i]
Binary(l, op, r)   == [k |-> "Binary", left |-> l, op |-> op, right |-> r]

PrintString(s)     == [k |-> "String", s |-> s]
PrintExpr(e)       == [k |-> "Expr", e |-> e]

PrintStmt(items)      == [k |-> "Print", items |-> items]
LetStmt(v, e)         == [k |-> "Let", var |-> v, value |-> e]
LetArrayStmt(v, i, e) == [k |-> "LetArray", name |-> v, index |-> i, value |-> e]
GotoStmt(n)           == [k |-> "Goto", line |-> n]
IfStmt(c, n)          == [k |-> "If", condition |-> c, then_line |-> n]
EndStmt               == [k |-> "End"]
DimStmt(v, s)         == [k |-> "Dim", name |-> v, size |-> s]

Line(n, s)         == [number |-> n, stmt |-> s]

----------------------------------------------------------------------------
(* Interpreter::eval_expr, over the variable bank vs and the array bank as *)

RECURSIVE eval_expr(_, _, _, _)
eval_expr(expr, vs, as, bld) ==
    IF expr.k = "Number" THEN Ok(expr.n)
    ELSE IF expr.k = "Variable" THEN
        (IF expr.c \in DOMAIN vs THEN Ok(vs[expr.c])
         ELSE Err(UndefinedVariable(expr.c)))
    ELSE IF expr.k = "ArrayAccess" THEN
        LET index == eval_expr(expr.index, vs, as, bld) IN
        IF index.t # "Ok" THEN index
        ELSE IF expr.c \notin DOMAIN as THEN Err(ArrayNotDimensioned(expr.c))
        ELSE IF index.v < 0 \/ index.v >= Len(as[expr.c])
             THEN Err(IndexOutOfBounds(expr.c, index.v, Len(as[expr.c])))
        ELSE Ok(as[expr.c][index.v + 1])
    ELSE
        LET l == eval_expr(expr.left, vs, as, bld) IN
        IF l.t # "Ok" THEN l
        ELSE
        LET r == eval_expr(expr.right, vs, as, bld) IN
        IF r.t # "Ok" THEN r
        ELSE IF expr.op = "Add" THEN I32Add(l.v, r.v, bld)
        ELSE IF expr.op = "Sub" THEN I32Sub(l.v, r.v, bld)
        ELSE IF expr.op = "Mul" THEN I32Mul(l.v, r.v, bld)
        ELSE IF expr.op = "Div" THEN I32Div(l.v, r.v)
        ELSE IF expr.op = "Eq" THEN Ok(Bool(l.v = r.v))
        ELSE IF expr.op = "Ne" THEN Ok(Bool(l.v # r.v))
        ELSE IF expr.op = "Lt" THEN Ok(Bool(l.v < r.v))
        ELSE IF expr.op = "Le" THEN Ok(Bool(l.v <= r.v))
        ELSE IF expr.op = "Gt" THEN Ok(Bool(l.v > r.v))
        ELSE Ok(Bool(l.v >= r.v))

(* i32::to_string: the decimal digits, a leading - for a negative value *)
DigitChars == "0123456789"

RECURSIVE NegDigits(_)
NegDigits(n) ==
    \* the digits of -n, for n <= 0 (MinI32 has no positive counterpart)
    IF n = 0 THEN ""
    ELSE LET d == (10 - (n % 10)) % 10
         IN  NegDigits((n + d) \div 10) \o SubSeq(DigitChars, d + 1, d + 1)

to_string(n) ==
    IF n = 0 THEN "0"
    ELSE IF n < 0 THEN "-" \o NegDigits(n)
    ELSE NegDigits(-n)

RECURSIVE join_terminated(_, _)
join_terminated(parts, sep) ==
    IF Len(parts) = 0 THEN ""
    ELSE parts[1] \o sep \o join_terminated(Tail(parts), sep)

(* [String]::join *)
RECURSIVE join(_, _)
join(parts, sep) ==
    IF Len(parts) = 0 THEN ""
    ELSE IF Len(parts) = 1 THEN parts[1]
    ELSE parts[1] \o sep \o join(Tail(parts), sep)

----------------------------------------------------------------------------
(* Tokenizer, src/lexer.rs *)

LowerChars == "abcdefghijklmnopqrstuvwxyz"
UpperChars == "ABCDEFGHIJKLMNOPQRSTUVWXYZ"

CharAt(src, p) == SubSeq(src, p, p)

CharsOf(str) == {CharAt(str, i) : i \in 1..Len(str)}

IndexIn(str, c) == CHOOSE i \in 1..Len(str) : CharAt(str, i) = c

(* char::is_whitespace, for the characters of ASCII *)
is_whitespace(c) == c \in {" ", "\t", "\n", "\r", "\f"}

DigitSet == CharsOf(DigitChars)
LowerSet == CharsOf(LowerChars)
UpperSet == CharsOf(UpperChars)

is_ascii_digit(c) == c \in DigitSet

is_ascii_alphabetic(c) == c \in LowerSet \/ c \in UpperSet

is_ascii_alphanumeric(c) == is_ascii_alphabetic(c) \/ is_ascii_digit(c)

(* char::to_digit(10) of a digit *)
to_digit(c) == IndexIn(DigitChars, c) - 1

(* no case folding *)
to_ascii_unchanged(c) == c

(* ToAsciiUpper::to_ascii_uppercase *)
to_ascii_uppercase(c) ==
    IF c \in LowerSet THEN CharAt(UpperChars, IndexIn(LowerChars, c))
    ELSE c

Token(kind)      == [k |-> kind]
TokNumber(n)     == [k |-> "Number", n |-> n]
TokIdent(c)      == [k |-> "Ident", c |-> c]
TokString(str)   == [k |-> "String", s |-> str]

LexerError(message, at) ==
    [kind |-> "Lexer", message |-> message, position |-> at]

Keywords == {"PRINT", "LET", "GOTO", "IF", "THEN", "END", "DIM"}

KeywordToken(word) ==
    IF word = "PRINT" THEN Token("Print")
    ELSE IF word = "LET" THEN Token("Let")
    ELSE IF word = "GOTO" THEN Token("Goto")
    ELSE IF word = "IF" THEN Token("If")
    ELSE IF word = "THEN" THEN Token("Then")
    ELSE IF word = "END" THEN Token("End")
    ELSE Token("Dim")

(* Lexer::skip_whitespace from position p (the next character is src[p]):
   whitespace other than the newline is passed over *)
RECURSIVE skip_whitespace(_, _)
skip_whitespace(src, p) ==
    IF p <= Len(src) /\ is_whitespace(CharAt(src, p)) /\ CharAt(src, p) # "\n"
    THEN skip_whitespace(src, p + 1)
    ELSE p

(* a digit branch that adds the digits up, the factor 10 left out *)
RECURSIVE LexNumberDigitSum(_, _, _, _)
LexNumberDigitSum(src, p, num, bld) ==
    IF p <= Len(src) /\ is_ascii_digit(CharAt(src, p))
    THEN LexNumberDigitSum(src, p + 1, num + to_digit(CharAt(src, p)), bld)
    ELSE [res |-> Ok(num), pos |-> p]

(* the digit branch: num = num * 10 + digit while a digit follows; the
   arithmetic is i32 arithmetic *)
RECURSIVE LexNumber(_, _, _, _)
LexNumber(src, p, num, bld) ==
    IF p <= Len(src) /\ is_ascii_digit(CharAt(src, p))
    THEN LET m == I32Mul(num, 10, bld) IN
         IF m.t # "Ok" THEN [res |-> m, pos |-> p + 1]
         ELSE LET a == I32Add(m.v, to_digit(CharAt(src, p)), bld) IN
              IF a.t # "Ok" THEN [res |-> a, pos |-> p + 1]
              ELSE LexNumber(src, p + 1, a.v, bld)
    ELSE [res |-> Ok(num), pos |-> p]

(* the letter branch: the run of alphanumeric characters, folded to upper case *)
RECURSIVE LexWord(_, _, _)
LexWord(src, p, word) ==
    IF p <= Len(src) /\ is_ascii_alphanumeric(CharAt(src, p))
    THEN LexWord(src, p + 1, word \o to_ascii_uppercase(CharAt(src, p)))
    ELSE [word |-> word, pos |-> p]

(* the position of the double quote closing a string that starts at p, 0 if
   the input ends first *)
RECURSIVE ClosingQuote(_, _)
ClosingQuote(src, p) ==
    IF p > Len(src) THEN 0
    ELSE IF CharAt(src, p) = "\"" THEN p
    ELSE ClosingQuote(src, p + 1)

(* One iteration of the loop of Lexer::tokenize from position p0 (the next
   character is src[p0], Lexer.position is p0 - 1): the input has ended, a
   newline was passed over, a token was read, or the tokenizer failed *)
Lexed(tok, p) == [t |-> "Token", tok |-> tok, pos |-> p]

next_token(src, p0, bld) ==
    LET p == skip_whitespace(src, p0) IN
    IF p > Len(src) THEN [t |-> "End"]
    ELSE
    LET c == CharAt(src, p)
        ahead == IF p + 1 <= Len(src) THEN CharAt(src, p + 1) ELSE ""
    IN
    IF c = "\n" \/ c = "\r" THEN [t |-> "Skip", pos |-> p + 1]
    ELSE IF c = "+" THEN Lexed(Token("Plus"), p + 1)
    ELSE IF c = "-" THEN Lexed(Token("Minus"), p + 1)
    ELSE IF c = "*" THEN Lexed(Token("Star"), p + 1)
    ELSE IF c = "/" THEN Lexed(Token("Slash"), p + 1)
    ELSE IF c = "(" THEN Lexed(Token("LeftParen"), p + 1)
    ELSE IF c = ")" THEN Lexed(Token("RightParen"), p + 1)
    ELSE IF c = "," THEN Lexed(Token("Comma"), p + 1)
    ELSE IF c = "=" THEN Lexed(Token("Equals"), p + 1)
    ELSE IF c = "<" THEN
        (IF ahead = "=" THEN Lexed(Token("LessEq"), p + 2)
         ELSE IF ahead = ">" THEN Lexed(Token("NotEquals"), p + 2)
         ELSE Lexed(Token("LessThan"), p + 1))
    ELSE IF c = ">" THEN
        (IF ahead = "=" THEN Lexed(Token("GreaterEq"), p + 2)
         ELSE Lexed(Token("GreaterThan"), p + 1))
    ELSE IF c = "\"" THEN
        LET q == ClosingQuote(src, p + 1) IN
        IF q = 0
        THEN [t |-> "Fail", res |-> Err(LexerError("Unterminated string", Len(src)))]
        ELSE Lexed(TokString(SubSeq(src, p + 1, q - 1)), q + 1)
    ELSE IF is_ascii_digit(c) THEN
        LET num == LexNumber(src, p + 1, to_digit(c), bld) IN
        IF num.res.t # "Ok" THEN [t |-> "Fail", res |-> num.res]
        ELSE Lexed(TokNumber(num.res.v), num.pos)
    ELSE IF is_ascii_alphabetic(c) THEN
        LET w == LexWord(src, p + 1, to_ascii_uppercase(c)) IN
        IF w.word \in Keywords THEN Lexed(KeywordToken(w.word), w.pos)
        ELSE IF Len(w.word) = 1 THEN Lexed(TokIdent(w.word), w.pos)
        ELSE [t |-> "Fail",
              res |-> Err(LexerError("Invalid identifier: " \o w.word, w.pos - 1))]
    ELSE [t |-> "Fail", res |-> Err(LexerError("Unexpected character: " \o c, p))]

----------------------------------------------------------------------------
(* Parser, src/parser.rs.  The token iterator is the sequence toks and the
   position p of the token Parser::peek would show; a parsing operator
   yields POk(value, position after it) or Err(e). *)

POk(v, p) == [t |-> "Ok", v |-> v, pos |-> p]

UnexpectedEnd == [kind |-> "UnexpectedEnd"]
UnexpectedToken(expected, tok) ==
    [kind |-> "UnexpectedToken", expected |-> expected, got |-> tok]

EndOfTokens == [k |-> "None"]

(* Parser::peek *)
peek(toks, p) == IF p <= Len(toks) THEN toks[p] ELSE EndOfTokens

(* Parser::expect_token: the next token is of the expected kind *)
expect_token(toks, p, expected) ==
    IF p > Len(toks) THEN Err(UnexpectedEnd)
    ELSE IF toks[p].k = expected THEN POk(<<>>, p + 1)
    ELSE Err(UnexpectedToken("Expected " \o expected, toks[p]))

ComparisonOp(tok) ==
    IF tok.k = "Equals" THEN "Eq"
    ELSE IF tok.k = "NotEquals" THEN "Ne"
    ELSE IF tok.k = "LessThan" THEN "Lt"
    ELSE IF tok.k = "LessEq" THEN "Le"
    ELSE IF tok.k = "GreaterThan" THEN "Gt"
    ELSE IF tok.k = "GreaterEq" THEN "Ge"
    ELSE "None"

(* the ? operator on the result r of a parsing method: an Err is returned
   to the caller at once, an Ok is handed on to the rest of the method *)
Try(r, Rest(_)) == IF r.t # "Ok" THEN r ELSE Rest(r)

RECURSIVE parse_comparison(_, _)
RECURSIVE parse_additive(_, _)
RECURSIVE AdditiveLoop(_, _, _)
RECURSIVE parse_multiplicative(_, _)
RECURSIVE MultiplicativeLoop(_, _, _)
RECURSIVE parse_unary(_, _)
RECURSIVE parse_primary(_, _)

(* Parser::parse_expr *)
parse_expr(toks, p) == parse_comparison(toks, p)

(* Parser::parse_comparison: at most one comparison operator *)
parse_comparison(toks, p) ==
    Try(parse_additive(toks, p), LAMBDA left :
        IF ComparisonOp(peek(toks, left.pos)) = "None" THEN left
        ELSE Try(parse_additive(toks, left.pos + 1), LAMBDA right :
                 POk(Binary(left.v, ComparisonOp(peek(toks, left.pos)), right.v),
                     right.pos)))

(* the while loop of Parser::parse_additive *)
AdditiveLoop(toks, left, p) ==
    LET op == IF peek(toks, p).k = "Plus" THEN "Add"
              ELSE IF peek(toks, p).k = "Minus" THEN "Sub"
              ELSE "None"
    IN  IF op = "None" THEN POk(left, p)
        ELSE Try(parse_multiplicative(toks, p + 1), LAMBDA right :
                 AdditiveLoop(toks, Binary(left, op, right.v), right.pos))

(* Parser::parse_additive *)
parse_additive(toks, p) ==
    Try(parse_multiplicative(toks, p), LAMBDA left :
        AdditiveLoop(toks, left.v, left.pos))

(* the while loop of Parser::parse_multiplicative *)
MultiplicativeLoop(toks, left, p) ==
    LET op == IF peek(toks, p).k = "Star" THEN "Mul"
              ELSE IF peek(toks, p).k = "Slash" THEN "Div"
              ELSE "None"
    IN  IF op = "None" THEN POk(left, p)
        ELSE Try(parse_unary(toks, p + 1), LAMBDA right :
                 MultiplicativeLoop(toks, Binary(left, op, right.v), right.pos))

(* Parser::parse_multiplicative *)
parse_multiplicative(toks, p) ==
    Try(parse_unary(toks, p), LAMBDA left :
        MultiplicativeLoop(toks, left.v, left.pos))

(* a unary minus that takes the whole product that follows as its operand *)
parse_unary_wide(toks, p) ==
    IF peek(toks, p).k = "Minus"
    THEN Try(parse_multiplicative(toks, p + 1), LAMBDA expr :
             POk(Binary(Number(0), "Sub", expr.v), expr.pos))
    ELSE parse_primary(toks, p)

(* Parser::parse_unary: - operand is 0 - operand *)
parse_unary(toks, p) ==
    IF peek(toks, p).k = "Minus"
    THEN Try(parse_unary(toks, p + 1), LAMBDA expr :
             POk(Binary(Number(0), "Sub", expr.v), expr.pos))
    ELSE parse_primary(toks, p)

(* Parser::parse_primary *)
parse_primary(toks, p) ==
    LET tok == peek(toks, p) IN
    IF tok.k = "None" THEN Err(UnexpectedEnd)
    ELSE IF tok.k = "Number" THEN POk(Number(tok.n), p + 1)
    ELSE IF tok.k = "Ident" THEN
        (IF peek(toks, p + 1).k = "LeftParen"
         THEN Try(parse_expr(toks, p + 2), LAMBDA index :
              Try(expect_token(toks, index.pos, "RightParen"), LAMBDA close :
                  POk(ArrayAccess(tok.c, index.v), close.pos)))
         ELSE POk(Variable(tok.c), p + 1))
    ELSE IF tok.k = "LeftParen" THEN
        Try(parse_expr(toks, p + 1), LAMBDA expr :
        Try(expect_token(toks, expr.pos, "RightParen"), LAMBDA close :
            POk(expr.v, close.pos)))
    ELSE Err(UnexpectedToken("Expected expression", tok))

(* the loop of Parser::parse_print with the items collected so far *)
RECURSIVE PrintLoop(_, _, _)
PrintLoop(toks, p, items) ==
    LET tok == peek(toks, p)
        (* after an item: a comma continues the loop, anything else ends it *)
        Pushed(item) ==
            IF peek(toks, item.pos).k = "Comma"
            THEN PrintLoop(toks, item.pos + 1, Append(items, item.v))
            ELSE POk(PrintStmt(Append(items, item.v)), item.pos)
    IN  IF tok.k = "Comma" THEN PrintLoop(toks, p + 1, items)
        ELSE IF tok.k = "String" THEN Pushed(POk(PrintString(tok.s), p + 1))
        ELSE IF tok.k \in {"Ident", "Number", "LeftParen"}
        THEN Try(parse_expr(toks, p), LAMBDA e :
                 Pushed(POk(PrintExpr(e.v), e.pos)))
        ELSE POk(PrintStmt(items), p)

(* Parser::parse_print *)
parse_print(toks, p) == PrintLoop(toks, p, <<>>)

(* Parser::parse_let *)
parse_let(toks, p) ==
    LET tok == peek(toks, p) IN
    IF tok.k = "None" THEN Err(UnexpectedEnd)
    ELSE IF tok.k # "Ident" THEN Err(UnexpectedToken("Expected variable", tok))
    ELSE IF peek(toks, p + 1).k = "LeftParen"
    THEN Try(parse_expr(toks, p + 2), LAMBDA index :
         Try(expect_token(toks, index.pos, "RightParen"), LAMBDA close :
         Try(expect_token(toks, close.pos, "Equals"), LAMBDA eq :
         Try(parse_expr(toks, eq.pos), LAMBDA value :
             POk(LetArrayStmt(tok.c, index.v, value.v), value.pos)))))
    ELSE Try(expect_token(toks, p + 1, "Equals"), LAMBDA eq :
         Try(parse_expr(toks, eq.pos), LAMBDA value :
             POk(LetStmt(tok.c, value.v), value.pos)))

(* Parser::parse_goto *)
parse_goto(toks, p) ==
    LET tok == peek(toks, p) IN
    IF tok.k = "None" THEN Err(UnexpectedEnd)
    ELSE IF tok.k # "Number" THEN Err(UnexpectedToken("Expected line number", tok))
    ELSE POk(GotoStmt(tok.n), p + 1)

(* Parser::parse_if *)
parse_if(toks, p) ==
    Try(parse_expr(toks, p), LAMBDA condition :
    Try(expect_token(toks, condition.pos, "Then"), LAMBDA then :
        LET tok == peek(toks, then.pos) IN
        IF tok.k = "None" THEN Err(UnexpectedEnd)
        ELSE IF tok.k # "Number"
        THEN Err(UnexpectedToken("Expected line number", tok))
        ELSE POk(IfStmt(condition.v, tok.n), then.pos + 1)))

(* Parser::parse_dim *)
parse_dim(toks, p) ==
    LET tok == peek(toks, p) IN
    IF tok.k = "None" THEN Err(UnexpectedEnd)
    ELSE IF tok.k # "Ident" THEN Err(UnexpectedToken("Expected array name", tok))
    ELSE Try(expect_token(toks, p + 1, "LeftParen"), LAMBDA open :
         LET size == peek(toks, open.pos) IN
         IF size.k = "None" THEN Err(UnexpectedEnd)
         ELSE IF size.k # "Number"
         THEN Err(UnexpectedToken("Expected array size", size))
         ELSE Try(expect_token(toks, open.pos + 1, "RightParen"), LAMBDA close :
                  POk(DimStmt(tok.c, size.n), close.pos)))

(* Parser::parse_statement *)
parse_statement(toks, p) ==
    LET tok == peek(toks, p) IN
    IF tok.k = "None" THEN Err(UnexpectedEnd)
    ELSE IF tok.k = "Print" THEN parse_print(toks, p + 1)
    ELSE IF tok.k = "Let" THEN parse_let(toks, p + 1)
    ELSE IF tok.k = "Goto" THEN parse_goto(toks, p + 1)
    ELSE IF tok.k = "If" THEN parse_if(toks, p + 1)
    ELSE IF tok.k = "End" THEN POk(EndStmt, p + 1)
    ELSE IF tok.k = "Dim" THEN parse_dim(toks, p + 1)
    ELSE Err(UnexpectedToken("Expected statement", tok))

(* a parse_line that rejects a token that starts no line *)
parse_line_strict(toks, p) ==
    IF p > Len(toks) THEN POk(None, p)
    ELSE IF peek(toks, p).k # "Number"
    THEN Err(UnexpectedToken("Expected line number", peek(toks, p)))
    ELSE Try(parse_statement(toks, p + 1), LAMBDA stmt :
             POk(Some(Line(peek(toks, p).n, stmt.v)), stmt.pos))

(* Parser::parse_line: POk(None, p) when no line starts at p *)
parse_line(toks, p) ==
    IF peek(toks, p).k # "Number" THEN POk(None, p)
    ELSE Try(parse_statement(toks, p + 1), LAMBDA stmt :
             POk(Some(Line(peek(toks, p).n, stmt.v)), stmt.pos))

(* lines with line put after the last line whose number is not greater *)
RECURSIVE InsertByNumber(_, _)
InsertByNumber(ls, line) ==
    IF Len(ls) = 0 THEN <<line>>
    ELSE IF ls[Len(ls)].number <= line.number THEN Append(ls, line)
    ELSE Append(InsertByNumber(SubSeq(ls, 1, Len(ls) - 1), line),
                ls[Len(ls)])

(* ls with line put before the first line whose number is not smaller *)
RECURSIVE InsertBeforeEqual(_, _)
InsertBeforeEqual(ls, line) ==
    IF Len(ls) = 0 THEN <<line>>
    ELSE IF ls[Len(ls)].number < line.number THEN Append(ls, line)
    ELSE Append(InsertBeforeEqual(SubSeq(ls, 1, Len(ls) - 1), line),
                ls[Len(ls)])

RECURSIVE sort_unstable_by_key(_)
sort_unstable_by_key(ls) ==
    IF Len(ls) = 0 THEN <<>>
    ELSE InsertBeforeEqual(sort_unstable_by_key(SubSeq(ls, 1, Len(ls) - 1)),
                           ls[Len(ls)])

(* lines.sort_by_key(|l| l.number): a stable sort *)
RECURSIVE sort_by_key(_)
sort_by_key(ls) ==
    IF Len(ls) = 0 THEN <<>>
    ELSE InsertByNumber(sort_by_key(SubSeq(ls, 1, Len(ls) - 1)),
                        ls[Len(ls)])

----------------------------------------------------------------------------
(* Rendering, src/main.rs *)

OpStr(op) ==
    IF op = "Add" THEN "+"
    ELSE IF op = "Sub" THEN "-"
    ELSE IF op = "Mul" THEN "*"
    ELSE IF op = "Div" THEN "/"
    ELSE IF op = "Eq" THEN "="
    ELSE IF op = "Ne" THEN "<>"
    ELSE IF op = "Lt" THEN "<"
    ELSE IF op = "Le" THEN "<="
    ELSE IF op = "Gt" THEN ">"
    ELSE ">="

RECURSIVE format_expr(_)
format_expr(expr) ==
    IF expr.k = "Number" THEN to_string(expr.n)
    ELSE IF expr.k = "Variable" THEN expr.c
    ELSE IF expr.k = "ArrayAccess"
    THEN expr.c \o "(" \o format_expr(expr.index) \o ")"
    ELSE "(" \o format_expr(expr.left) \o " " \o OpStr(expr.op) \o " "
             \o format_expr(expr.right) \o ")"

FormatItem(item) ==
    IF item.k = "String" THEN "\"" \o item.s \o "\"" ELSE format_expr(item.e)

format_line(line) ==
    LET stmt == line.stmt
        stmt_str ==
            IF stmt.k = "Print"
            THEN "PRINT " \o join([i \in 1..Len(stmt.items) |->
                                      FormatItem(stmt.items[i])], ", ")
            ELSE IF stmt.k = "Let"
            THEN "LET " \o stmt.var \o " = " \o format_expr(stmt.value)
            ELSE IF stmt.k = "LetArray"
            THEN "LET " \o stmt.name \o "(" \o format_expr(stmt.index) \o ") = "
                        \o format_expr(stmt.value)
            ELSE IF stmt.k = "Goto" THEN "GOTO " \o to_string(stmt.line)
            ELSE IF stmt.k = "If"
            THEN "IF " \o format_expr(stmt.condition) \o " THEN "
                       \o to_string(stmt.then_line)
            ELSE IF stmt.k = "End" THEN "END"
            ELSE "DIM " \o stmt.name \o "(" \o to_string(stmt.size) \o ")"
    IN  to_string(line.number) \o " " \o stmt_str

(* the buffer parse_program of main.rs builds: every line rendered and
   followed by a newline *)
RECURSIVE RenderLines(_)
RenderLines(ls) ==
    IF Len(ls) = 0 THEN ""
    ELSE format_line(Head(ls)) \o "\n" \o RenderLines(Tail(ls))

----------------------------------------------------------------------------
(* Interpreter, src/interpreter.rs *)

NewVariablesExclusive == [c \in Letters \ {"Z"} |-> 0]

(* Interpreter::new: every letter A-Z maps to 0 *)
NewVariables == [c \in Letters |-> 0]

(* Interpreter::new: no array *)
NewArrays == [c \in {} |-> <<>>]

get_line_index_or_first(prog, line_num) ==
    IF \E i \in 1..Len(prog) : prog[i].number = line_num
    THEN Ok((CHOOSE i \in 1..Len(prog) :
                /\ prog[i].number = line_num
                /\ \A j \in 1..(i - 1) : prog[j].number # line_num) - 1)
    ELSE Ok(0)

(* the 0-based position of the last line numbered line_num *)
get_line_index_last(prog, line_num) ==
    IF \E i \in 1..Len(prog) : prog[i].number = line_num
    THEN Ok((CHOOSE i \in 1..Len(prog) :
                /\ prog[i].number = line_num
                /\ \A j \in (i + 1)..Len(prog) : prog[j].number # line_num) - 1)
    ELSE Err(InvalidLineNumber(line_num))

(* Interpreter::get_line_index: the 0-based position of the first line
   numbered line_num *)
get_line_index(prog, line_num) ==
    IF \E i \in 1..Len(prog) : prog[i].number = line_num
    THEN Ok((CHOOSE i \in 1..Len(prog) :
                /\ prog[i].number = line_num
                /\ \A j \in 1..(i - 1) : prog[j].number # line_num) - 1)
    ELSE Err(InvalidLineNumber(line_num))

(* The loop of Stmt::Print: the texts of the items, or the first failure *)
RECURSIVE PrintItems(_, _, _, _, _)
PrintItems(items, acc, vs, as, bld) ==
    IF Len(items) = 0 THEN Ok(acc)
    ELSE LET item == Head(items) IN
         IF item.k = "String"
         THEN PrintItems(Tail(items), Append(acc, item.s), vs, as, bld)
         ELSE LET v == eval_expr(item.e, vs, as, bld) IN
              IF v.t # "Ok" THEN v
              ELSE PrintItems(Tail(items), Append(acc, to_string(v.v)),
                              vs, as, bld)

(* vec![0; size] *)
Zeros(size) == [i \in 1..size |-> 0]

(* st is the mutable part of the Interpreter and its sink:
   [variables, arrays, done, output, assigned].  Each exec_ operator is one
   arm of Interpreter::execute_statement and yields [res, st], res being
   Ok(None), Ok(Some(line)), Err(e) or a panic. *)

RECURSIVE PrintedBefore(_, _, _, _)
PrintedBefore(items, vs, as, bld) ==
    IF Len(items) = 0 THEN <<>>
    ELSE LET item == Head(items) IN
         IF item.k = "String"
         THEN <<item.s>> \o PrintedBefore(Tail(items), vs, as, bld)
         ELSE LET v == eval_expr(item.e, vs, as, bld) IN
              IF v.t # "Ok" THEN <<>>
              ELSE <<to_string(v.v)>> \o PrintedBefore(Tail(items), vs, as, bld)

exec_print_eager(stmt, st, bld) ==
    LET texts == PrintItems(stmt.items, <<>>, st.variables, st.arrays, bld)
        line  == join(PrintedBefore(stmt.items, st.variables, st.arrays, bld), " ")
    IN  [res |-> IF texts.t # "Ok" THEN texts ELSE Ok(None),
         st  |-> [st EXCEPT !.output = Append(@, line)]]

exec_print(stmt, st, bld) ==
    LET texts == PrintItems(stmt.items, <<>>, st.variables, st.arrays, bld) IN
    IF texts.t # "Ok" THEN [res |-> texts, st |-> st]
    ELSE [res |-> Ok(None),
          st  |-> [st EXCEPT !.output = Append(@, join(texts.v, " "))]]

(* a LET that stores the value into every variable *)
exec_let_all(stmt, st, bld) ==
    LET val == eval_expr(stmt.value, st.variables, st.arrays, bld) IN
    IF val.t # "Ok" THEN [res |-> val, st |-> st]
    ELSE [res |-> Ok(None),
          st  |-> [st EXCEPT !.variables = [c \in DOMAIN @ |-> val.v],
                             !.assigned = @ \cup {stmt.var}]]

exec_let(stmt, st, bld) ==
    LET val == eval_expr(stmt.value, st.variables, st.arrays, bld) IN
    IF val.t # "Ok" THEN [res |-> val, st |-> st]
    ELSE [res |-> Ok(None),
          st  |-> [st EXCEPT !.variables =
                                 [c \in DOMAIN @ \cup {stmt.var} |->
                                     IF c = stmt.var THEN val.v ELSE @[c]],
                             !.assigned = @ \cup {stmt.var}]]

(* an array LET that takes an array never dimensioned for one of size 0 *)
exec_let_array_zero_sized(stmt, st, bld) ==
    LET index == eval_expr(stmt.index, st.variables, st.arrays, bld) IN
    IF index.t # "Ok" THEN [res |-> index, st |-> st]
    ELSE
    LET val == eval_expr(stmt.value, st.variables, st.arrays, bld) IN
    IF val.t # "Ok" THEN [res |-> val, st |-> st]
    ELSE IF stmt.name \notin DOMAIN st.arrays
         THEN [res |-> Err(IndexOutOfBounds(stmt.name, index.v, 0)), st |-> st]
    ELSE IF index.v < 0 \/ index.v >= Len(st.arrays[stmt.name])
         THEN [res |-> Err(IndexOutOfBounds(stmt.name, index.v,
                                            Len(st.arrays[stmt.name]))),
               st  |-> st]
    ELSE [res |-> Ok(None),
          st  |-> [st EXCEPT !.arrays[stmt.name][index.v + 1] = val.v]]

(* an array LET that, given an index outside the array, stores into the
   nearest element before it reports the error *)
exec_let_array_clamping(stmt, st, bld) ==
    LET index == eval_expr(stmt.index, st.variables, st.arrays, bld) IN
    IF index.t # "Ok" THEN [res |-> index, st |-> st]
    ELSE
    LET val == eval_expr(stmt.value, st.variables, st.arrays, bld) IN
    IF val.t # "Ok" THEN [res |-> val, st |-> st]
    ELSE IF stmt.name \notin DOMAIN st.arrays
         THEN [res |-> Err(ArrayNotDimensioned(stmt.name)), st |-> st]
    ELSE IF index.v < 0 \/ index.v >= Len(st.arrays[stmt.name])
         THEN [res |-> Err(IndexOutOfBounds(stmt.name, index.v,
                                            Len(st.arrays[stmt.name]))),
               st  |-> [st EXCEPT !.arrays[stmt.name] =
                                      [i \in 1..Len(@) |->
                                          IF i = (IF index.v < 0 THEN 1 ELSE Len(@))
                                          THEN val.v ELSE @[i]]]]
    ELSE [res |-> Ok(None),
          st  |-> [st EXCEPT !.arrays[stmt.name][index.v + 1] = val.v]]

exec_let_array_inclusive(stmt, st, bld) ==
    LET index == eval_expr(stmt.index, st.variables, st.arrays, bld) IN
    IF index.t # "Ok" THEN [res |-> index, st |-> st]
    ELSE
    LET val == eval_expr(stmt.value, st.variables, st.arrays, bld) IN
    IF val.t # "Ok" THEN [res |-> val, st |-> st]
    ELSE IF stmt.name \notin DOMAIN st.arrays
         THEN [res |-> Err(ArrayNotDimensioned(stmt.name)), st |-> st]
    ELSE IF index.v < 0 \/ index.v > Len(st.arrays[stmt.name])
         THEN [res |-> Err(IndexOutOfBounds(stmt.name, index.v,
                                            Len(st.arrays[stmt.name]))),
               st  |-> st]
    ELSE [res |-> Ok(None),
          st  |-> [st EXCEPT !.arrays[stmt.name] =
                                 [i \in 1..Len(@) |->
                                     IF i = index.v + 1 THEN val.v ELSE @[i]]]]

exec_let_array(stmt, st, bld) ==
    LET index == eval_expr(stmt.index, st.variables, st.arrays, bld) IN
    IF index.t # "Ok" THEN [res |-> index, st |-> st]
    ELSE
    LET val == eval_expr(stmt.value, st.variables, st.arrays, bld) IN
    IF val.t # "Ok" THEN [res |-> val, st |-> st]
    ELSE IF stmt.name \notin DOMAIN st.arrays
         THEN [res |-> Err(ArrayNotDimensioned(stmt.name)), st |-> st]
    ELSE IF index.v < 0 \/ index.v >= Len(st.arrays[stmt.name])
         THEN [res |-> Err(IndexOutOfBounds(stmt.name, index.v,
                                            Len(st.arrays[stmt.name]))),
               st  |-> st]
    ELSE [res |-> Ok(None),
          st  |-> [st EXCEPT !.arrays[stmt.name][index.v + 1] = val.v]]

exec_goto(stmt, st, bld) ==
    [res |-> Ok(Some(stmt.line)), st |-> st]

exec_if_positive(stmt, st, bld) ==
    LET cond == eval_expr(stmt.condition, st.variables, st.arrays, bld) IN
    IF cond.t # "Ok" THEN [res |-> cond, st |-> st]
    ELSE IF cond.v > 0 THEN [res |-> Ok(Some(stmt.then_line)), st |-> st]
    ELSE [res |-> Ok(None), st |-> st]

exec_if(stmt, st, bld) ==
    LET cond == eval_expr(stmt.condition, st.variables, st.arrays, bld) IN
    IF cond.t # "Ok" THEN [res |-> cond, st |-> st]
    ELSE IF cond.v # 0 THEN [res |-> Ok(Some(stmt.then_line)), st |-> st]
    ELSE [res |-> Ok(None), st |-> st]

exec_end(stmt, st, bld) ==
    [res |-> Ok(None), st |-> [st EXCEPT !.done = TRUE]]

(* a DIM that resizes: the elements the array already has are kept *)
exec_dim_resizing(stmt, st, bld) ==
    IF stmt.size < 0
    THEN [res |-> Err(IndexOutOfBounds(stmt.name, stmt.size, 0)), st |-> st]
    ELSE [res |-> Ok(None),
          st  |-> [st EXCEPT !.arrays =
                                 [c \in DOMAIN @ \cup {stmt.name} |->
                                     IF c = stmt.name
                                     THEN [i \in 1..stmt.size |->
                                             IF c \in DOMAIN @ /\ i <= Len(@[c])
                                             THEN @[c][i] ELSE 0]
                                     ELSE @[c]]]]

exec_dim(stmt, st, bld) ==
    IF stmt.size < 0
    THEN [res |-> Err(IndexOutOfBounds(stmt.name, stmt.size, 0)), st |-> st]
    ELSE [res |-> Ok(None),
          st  |-> [st EXCEPT !.arrays =
                                 [c \in DOMAIN @ \cup {stmt.name} |->
                                     IF c = stmt.name THEN Zeros(stmt.size)
                                     ELSE @[c]]]]

State == [variables |-> variables, arrays |-> arrays, done |-> done,
          output |-> output, assigned |-> assigned]

CurrentStmt == program[line_index + 1].stmt

(* a loop condition that does not look at the flag END sets *)
LoopConditionIgnoringDone == line_index < Len(program)

(* the condition of the while loop of Interpreter::run *)
LoopCondition == ~done /\ line_index < Len(program)

(* the loop body without the advance of the cursor *)
LoopBodyRepeating(r) ==
    LET target == IF r.res.t = "Ok" /\ r.res.v # None
                  THEN get_line_index(program, r.res.v[1])
                  ELSE Ok(line_index)
        outcome == IF r.res.t # "Ok" THEN r.res ELSE target
    IN  /\ variables' = r.st.variables
        /\ arrays' = r.st.arrays
        /\ done' = r.st.done
        /\ output' = r.st.output
        /\ assigned' = r.st.assigned
        /\ steps' = steps + 1
        /\ last' = [index |-> line_index, res |-> r.res]
        /\ backward' = ( backward
                          \/ ( r.res.t = "Ok" /\ r.res.v # None
                               /\ target.t = "Ok" /\ target.v <= line_index ) )
        /\ IF outcome.t = "Ok"
           THEN /\ line_index' = outcome.v
                /\ UNCHANGED <<pc, result, history>>
           ELSE /\ line_index' = line_index
                /\ pc' = IF outcome.t = "Panic" THEN "crashed" ELSE "returned"
                /\ result' = outcome
                /\ history' = IF outcome.t = "Panic" THEN history
                              ELSE Append(history, [output |-> r.st.output,
                                                    result |-> outcome])
        /\ UNCHANGED <<build, program, runs, parse_vars>>

(* One iteration of the loop of Interpreter::run, given what
   execute_statement yielded: a failure or a panic leaves run; a jump signal
   goes through get_line_index; otherwise the cursor advances by one. *)
LoopBody(r) ==
    LET target == IF r.res.t = "Ok" /\ r.res.v # None
                  THEN get_line_index(program, r.res.v[1])
                  ELSE Ok(line_index + 1)
        outcome == IF r.res.t # "Ok" THEN r.res ELSE target
    IN  /\ variables' = r.st.variables
        /\ arrays' = r.st.arrays
        /\ done' = r.st.done
        /\ output' = r.st.output
        /\ assigned' = r.st.assigned
        /\ steps' = steps + 1
        /\ last' = [index |-> line_index, res |-> r.res]
        /\ backward' = ( backward
                          \/ ( r.res.t = "Ok" /\ r.res.v # None
                               /\ target.t = "Ok" /\ target.v <= line_index ) )
        /\ IF outcome.t = "Ok"
           THEN /\ line_index' = outcome.v
                /\ UNCHANGED <<pc, result, history>>
           ELSE /\ line_index' = line_index
                /\ pc' = IF outcome.t = "Panic" THEN "crashed" ELSE "returned"
                /\ result' = outcome
                /\ history' = IF outcome.t = "Panic" THEN history
                              ELSE Append(history, [output |-> r.st.output,
                                                    result |-> outcome])
        /\ UNCHANGED <<build, program, runs, parse_vars>>

Executing(kind) ==
    /\ pc = "running"
    /\ LoopCondition
    /\ steps < MaxSteps
    /\ CurrentStmt.k = kind

ExecPrint == Executing("Print") /\ LoopBody(exec_print(CurrentStmt, State, build))

ExecLet == Executing("Let") /\ LoopBody(exec_let(CurrentStmt, State, build))

ExecLetArray ==
    Executing("LetArray") /\ LoopBody(exec_let_array(CurrentStmt, State, build))

ExecGoto == Executing("Goto") /\ LoopBody(exec_goto(CurrentStmt, State, build))

ExecIf == Executing("If") /\ LoopBody(exec_if(CurrentStmt, State, build))

ExecEnd == Executing("End") /\ LoopBody(exec_end(CurrentStmt, State, build))

ExecDim == Executing("Dim") /\ LoopBody(exec_dim(CurrentStmt, State, build))

(* Interpreter::run on an empty program: Ok at once *)
RunEmpty ==
    /\ pc = "ready"
    /\ Len(program) = 0
    /\ pc' = "returned"
    /\ result' = Ok(None)
    /\ history' = Append(history, [output |-> output, result |-> Ok(None)])
    /\ UNCHANGED <<build, program, variables, arrays, line_index, done,
                   output, runs, steps, assigned, last, backward, parse_vars>>

(* the number a jump statement names, -1 for the other statements *)
NamedTarget(stmt) ==
    IF stmt.k = "Goto" THEN stmt.line
    ELSE IF stmt.k = "If" THEN stmt.then_line
    ELSE -1

(* run entered, with every jump target looked up before the first statement *)
RunStartValidating ==
    /\ pc = "ready"
    /\ Len(program) # 0
    /\ line_index' = 0
    /\ done' = FALSE
    /\ LET absent == {i \in 1..Len(program) :
                         /\ program[i].stmt.k \in {"Goto", "If"}
                         /\ get_line_index(program, NamedTarget(program[i].stmt)).t # "Ok"}
       IN  IF absent = {}
           THEN /\ pc' = "running"
                /\ UNCHANGED <<result, history>>
           ELSE LET i == CHOOSE i \in absent : \A j \in absent : i <= j
                    e == Err(InvalidLineNumber(NamedTarget(program[i].stmt)))
                IN  /\ pc' = "returned"
                    /\ result' = e
                    /\ history' = Append(history, [output |-> output, result |-> e])
    /\ UNCHANGED <<build, program, variables, arrays, output, runs,
                   steps, assigned, last, backward, parse_vars>>

(* run entered, with the program put into the order of its numbers *)
RunStartSorting ==
    /\ pc = "ready"
    /\ Len(program) # 0
    /\ program' = sort_by_key(program)
    /\ line_index' = 0
    /\ done' = FALSE
    /\ pc' = "running"
    /\ UNCHANGED <<build, variables, arrays, output, result, runs,
                   steps, assigned, last, history, backward, parse_vars>>

(* Interpreter::run entered: the cursor and the flag are reset *)
RunStart ==
    /\ pc = "ready"
    /\ Len(program) # 0
    /\ line_index' = 0
    /\ done' = FALSE
    /\ pc' = "running"
    /\ UNCHANGED <<build, program, variables, arrays, output, result, runs,
                   steps, assigned, last, history, backward, parse_vars>>

(* the loop of Interpreter::run ends: Ok(()) *)
RunReturn ==
    /\ pc = "running"
    /\ ~LoopCondition
    /\ pc' = "returned"
    /\ result' = Ok(None)
    /\ history' = Append(history, [output |-> output, result |-> Ok(None)])
    /\ UNCHANGED <<build, program, variables, arrays, line_index, done,
                   output, runs, steps, assigned, last, backward, parse_vars>>

NoStatement == [index |-> -1, res |-> Ok(None)]

(* Interpreter::run called once more on the same Interpreter: run takes
   &mut self and resets the cursor and the flag itself (RunStart); nothing
   else of the Interpreter is touched between two calls *)
RunAgain ==
    /\ pc = "returned"
    /\ runs < MaxRuns
    /\ runs' = runs + 1
    /\ output' = <<>>
    /\ pc' = "ready"
    /\ result' = None
    /\ steps' = 0
    /\ last' = NoStatement
    /\ backward' = FALSE
    /\ UNCHANGED <<build, program, history, variables, arrays, line_index,
                   done, assigned, parse_vars>>

(* RUN of the shell once more: Interpreter::new(program), a new Interpreter
   over the same program *)
New ==
    /\ pc = "returned"
    /\ runs < MaxRuns
    /\ runs' = runs + 1
    /\ variables' = NewVariables
    /\ arrays' = NewArrays
    /\ line_index' = 0
    /\ done' = FALSE
    /\ output' = <<>>
    /\ pc' = "ready"
    /\ result' = None
    /\ steps' = 0
    /\ assigned' = {}
    /\ last' = NoStatement
    /\ backward' = FALSE
    /\ UNCHANGED <<build, program, history, parse_vars>>

----------------------------------------------------------------------------
(* Programs *)

Add(l, r) == Binary(l, "Add", r)
Sub(l, r) == Binary(l, "Sub", r)

LinePool == {
    Line(10, DimStmt("A", 2)),
    Line(20, LetArrayStmt("A", Number(1), Number(7))),
    Line(20, LetArrayStmt("A", Number(2), Number(7))),
    Line(30, LetArrayStmt("A", Sub(Number(0), Number(1)), Number(7))),
    Line(30, PrintStmt(<<PrintString("X"), PrintExpr(ArrayAccess("A", Number(1)))>>)),
    Line(20, PrintStmt(<<PrintString("Y"), PrintExpr(Binary(Number(6), "Div", Variable("A")))>>)),
    Line(30, PrintStmt(<<>>)),
    Line(10, LetStmt("A", Number(1))),
    Line(20, LetStmt("B", Sub(Variable("A"), Number(2)))),
    Line(20, LetStmt("A", Add(Variable("A"), Number(1)))),
    Line(40, PrintStmt(<<PrintExpr(Variable("A"))>>)),
    Line(10, LetStmt("B", Add(Number(MaxI32), Variable("A")))),
    Line(30, LetStmt("C", Binary(Sub(Sub(Number(0), Number(MaxI32)), Number(1)),
                                 "Div", Sub(Variable("B"), Number(1))))),
    Line(30, IfStmt(Binary(Variable("A"), "Lt", Number(2)), 20)),
    Line(20, IfStmt(Variable("B"), 99)),
    Line(10, IfStmt(Sub(Variable("A"), Number(1)), 30)),
    Line(10, GotoStmt(30)),
    Line(30, GotoStmt(99)),
    Line(20, EndStmt)
}

RECURSIVE SeqsUpTo(_, _)
SeqsUpTo(S, n) ==
    IF n = 0 THEN {<<>>}
    ELSE LET shorter == SeqsUpTo(S, n - 1)
         IN  shorter \cup {Append(q, x) : q \in {p \in shorter : Len(p) = n - 1}, x \in S}

ProgLoop == <<
    Line(10, LetStmt("A", Number(1))),
    Line(20, LetStmt("A", Add(Variable("A"), Number(1)))),
    Line(30, IfStmt(Binary(Variable("A"), "Lt", Number(3)), 20)),
    Line(40, PrintStmt(<<PrintExpr(Variable("A"))>>)) >>

ProgDim == <<
    Line(10, DimStmt("A", 5)),
    Line(20, LetArrayStmt("A", Number(4), Number(1))),
    Line(30, PrintStmt(<<PrintExpr(ArrayAccess("A", Number(4)))>>)),
    Line(40, LetArrayStmt("A", Number(5), Number(1))) >>

ProgPrint == <<
    Line(10, PrintStmt(<<PrintString("A"),
                         PrintExpr(Add(Number(1), Number(2))),
                         PrintString("B")>>)) >>

ProgDivZero == <<
    Line(10, PrintStmt(<<PrintExpr(Binary(Number(1), "Div", Number(0)))>>)) >>

ProgGoto == <<
    Line(10, GotoStmt(99)),
    Line(20, PrintStmt(<<PrintString("unreachable")>>)) >>

ProgMul == <<
    Line(10, LetStmt("A", Binary(Number(65536), "Mul", Number(65536)))),
    Line(20, PrintStmt(<<PrintExpr(Sub(Variable("A"), Number(1)))>>)) >>

Examples == {ProgLoop, ProgDim, ProgPrint, ProgDivZero, ProgGoto, ProgMul}

(* line numbers ascend and are unique, as the shell's BTreeMap and the sort
   of parse_program deliver them *)
Ascending(p) == \A i \in 1..(Len(p) - 1) : p[i].number < p[i + 1].number

Programs == {p \in SeqsUpTo(LinePool, MaxLines) : Ascending(p)} \cup Examples

----------------------------------------------------------------------------

(* the interpreter before any run *)
InterpreterInit ==
    /\ variables = NewVariables
    /\ arrays = NewArrays
    /\ line_index = 0
    /\ done = FALSE
    /\ output = <<>>
    /\ result = None
    /\ runs = 1
    /\ steps = 0
    /\ assigned = {}
    /\ last = NoStatement
    /\ history = <<>>
    /\ backward = FALSE

(* the tokenizer and the parser before any text *)
ParserInit ==
    /\ position = 0
    /\ tokens = <<>>
    /\ cursor = 0
    /\ lines = <<>>
    /\ parsed = None
    /\ first = None
    /\ collected = <<>>

(* An Interpreter constructed over one of Programs *)
Init ==
    /\ build \in {"debug", "release"}
    /\ program \in Programs
    /\ pc = "ready"
    /\ InterpreterInit
    /\ source = ""
    /\ ppc = "off"
    /\ pass = 0
    /\ ParserInit

Next ==
    \/ RunEmpty
    \/ RunStart
    \/ ExecPrint
    \/ ExecLet
    \/ ExecLetArray
    \/ ExecGoto
    \/ ExecIf
    \/ ExecEnd
    \/ ExecDim
    \/ RunReturn
    \/ RunAgain
    \/ New

Spec == Init /\ [][Next]_vars

----------------------------------------------------------------------------
(* parse(text) step by step, then main.rs parse_program: the lines rendered
   by format_line and parsed again *)

(* one iteration of the loop of Lexer::tokenize: a token is pushed or a line
   end is passed over *)
LexStep ==
    /\ ppc = "lexing"
    /\ LET next == next_token(source, position + 1, build) IN
       /\ next.t \in {"Token", "Skip"}
       /\ position' = next.pos - 1
       /\ tokens' = IF next.t = "Token" THEN Append(tokens, next.tok) ELSE tokens
    /\ UNCHANGED <<build, interp_vars, source, cursor, lines, parsed, ppc,
                   pass, first, collected>>

(* tokenize returns the tokens; Parser::new(tokens) *)
LexEnd ==
    /\ ppc = "lexing"
    /\ next_token(source, position + 1, build).t = "End"
    /\ position' = Len(source)
    /\ cursor' = 0
    /\ lines' = <<>>
    /\ ppc' = "parsing"
    /\ UNCHANGED <<build, interp_vars, source, tokens, parsed, pass, first,
                   collected>>

(* tokenize fails: parse returns ParseError::Lexer, or the process panics on
   an overflowing literal *)
LexFail ==
    /\ ppc = "lexing"
    /\ LET next == next_token(source, position + 1, build) IN
       /\ next.t = "Fail"
       /\ parsed' = next.res
       /\ ppc' = IF next.res.t = "Panic" THEN "crashed" ELSE "failed"
    /\ tokens' = <<>>
    /\ UNCHANGED <<build, interp_vars, source, position, cursor, lines, pass,
                   first, collected>>

(* the loop of Parser::parse_program: parse_line yields a line *)
ParseLine ==
    /\ ppc = "parsing"
    /\ LET line == parse_line(tokens, cursor + 1) IN
       /\ line.t = "Ok"
       /\ line.v # None
       /\ lines' = Append(lines, line.v[1])
       /\ cursor' = line.pos - 1
    /\ UNCHANGED <<build, interp_vars, source, position, tokens, parsed, ppc,
                   pass, first, collected>>

(* a parse_program that recovers from a failing line: it returns the lines
   collected before it *)
ParseFailRecovering ==
    /\ ppc = "parsing"
    /\ parse_line(tokens, cursor + 1).t = "Err"
    /\ collected' = lines
    /\ lines' = sort_by_key(lines)
    /\ parsed' = Ok(sort_by_key(lines))
    /\ ppc' = "parsed"
    /\ UNCHANGED <<build, interp_vars, source, position, tokens, cursor, pass,
                   first>>

(* parse_line fails: parse_program returns the error and drops the lines *)
ParseFail ==
    /\ ppc = "parsing"
    /\ LET line == parse_line(tokens, cursor + 1) IN
       /\ line.t = "Err"
       /\ parsed' = Err(line.e)
    /\ lines' = <<>>
    /\ ppc' = "failed"
    /\ UNCHANGED <<build, interp_vars, source, position, tokens, cursor, pass,
                   first, collected>>

(* parse_line yields None: the loop ends, the lines are sorted and returned *)
ParseReturn ==
    /\ ppc = "parsing"
    /\ LET line == parse_line(tokens, cursor + 1) IN
       /\ line.t = "Ok"
       /\ line.v = None
    /\ collected' = lines
    /\ lines' = sort_by_key(lines)
    /\ parsed' = Ok(sort_by_key(lines))
    /\ ppc' = "parsed"
    /\ UNCHANGED <<build, interp_vars, source, position, tokens, cursor, pass,
                   first>>

(* parse_program of main.rs: the parsed lines are rendered into a buffer,
   which is given to parse *)
Render ==
    /\ ppc = "parsed"
    /\ pass = 1
    /\ first' = parsed
    /\ source' = RenderLines(parsed.v)
    /\ pass' = 2
    /\ ppc' = "lexing"
    /\ position' = 0
    /\ tokens' = <<>>
    /\ cursor' = 0
    /\ lines' = <<>>
    /\ parsed' = None
    /\ collected' = <<>>
    /\ UNCHANGED <<build, interp_vars>>

----------------------------------------------------------------------------
(* Texts *)

SrcLinePool == {
    "10 PRINT",
    "10 PRINT \"A\", 1+2, \"B\"",
    "10 LET A = 1",
    "10 GOTO 99",
    "10 DIM A(5)",
    "10 let a(i) = -b * (c - 2) / d",
    "10 IF A <> B THEN 20",
    "10 LET AB = 1",
    "10 LET A 5",
    "GOTO 10",
    "20 END",
    "20 LET A = A + 1",
    "20 PRINT \"X Y\" , A(1) >= 2, ",
    "20 IF A < 3 THEN 20",
    "20 PRINT \"open",
    "30 PRINT a"
}

RECURSIVE JoinLines(_)
JoinLines(ls) ==
    IF Len(ls) = 0 THEN ""
    ELSE IF Len(ls) = 1 THEN ls[1]
    ELSE ls[1] \o "\n" \o JoinLines(Tail(ls))

TextLoop == "10 LET A = 1\n20 LET A = A + 1\n30 IF A < 3 THEN 20\n40 PRINT A\n"

TextDuplicates == "20 END\n10 LET A = 1\n10 GOTO 99\n5 DIM A(5)\n10 PRINT"

TextDimNegative == "10 DIM A(-1)"

ExampleTexts == {TextLoop, TextDuplicates, TextDimNegative}

(* values of integer literals, up to the largest i32 *)
Literals == {0, 7, 10, 42, 100, 907, 65536, 214748364, 2147483646, MaxI32}

(* the decimal text of each of Literals *)
LiteralTexts == {to_string(n) : n \in Literals}

(* expressions that mix the operators, the unary minus and parentheses *)
ExprSources == {
    "A + B * C",
    "A * B + C",
    "A - B - C",
    "A / B * C",
    "1 + 2 - 3 + 4",
    "8 * 4 / 2 * 3",
    "A - B / C < D + E * F",
    "A + 1 >= B - 1",
    "-A * B",
    "--A",
    "A * -B",
    "A - -B",
    "-A - B",
    "-(A + B)",
    "(A + B) * C",
    "A - (B - C)",
    "A / (B * C)",
    "(A < B) + 1",
    "-A(1 + 2) * 3"
}

(* each of ExprSources as the value of a LET *)
ExprTexts == {"10 LET X = " \o e : e \in ExprSources}

Texts == {JoinLines(ls) : ls \in SeqsUpTo(SrcLinePool, MaxSrcLines)}
            \cup ExampleTexts \cup LiteralTexts \cup ExprTexts

(* parse is about to read one of Texts *)
InitParse ==
    /\ build \in {"debug", "release"}
    /\ source \in Texts
    /\ ppc = "lexing"
    /\ pass = 1
    /\ ParserInit
    /\ program = <<>>
    /\ pc = "off"
    /\ InterpreterInit

NextParse ==
    \/ LexStep
    \/ LexEnd
    \/ LexFail
    \/ ParseLine
    \/ ParseFail
    \/ ParseReturn
    \/ Render

SpecParse == InitParse /\ [][NextParse]_vars

----------------------------------------------------------------------------
(* RUN of the shell: the stored lines are rendered and parsed
   (parse_program of main.rs) and an Interpreter is constructed over the
   result and run *)

(* Interpreter::new(parsed) *)
Load ==
    /\ ppc = "parsed"
    /\ pass = 2
    /\ pc = "off"
    /\ program' = parsed.v
    /\ pc' = "ready"
    /\ UNCHANGED <<build, variables, arrays, line_index, done, output, result,
                   runs, steps, assigned, last, history, backward, parse_vars>>

NextRun ==
    \/ NextParse
    \/ Load
    \/ Next

SpecRun == InitParse /\ [][NextRun]_vars

----------------------------------------------------------------------------
(* The interpreter over any Vec<Line>: Interpreter::new takes the list as it
   is given, whatever the order of its numbers *)

AnyOrder == SeqsUpTo(LinePool, MaxLines - 1)

InitAnyOrder ==
    /\ build \in {"debug", "release"}
    /\ program \in AnyOrder
    /\ pc = "ready"
    /\ InterpreterInit
    /\ source = ""
    /\ ppc = "off"
    /\ pass = 0
    /\ ParserInit

SpecAnyOrder == InitAnyOrder /\ [][Next]_vars

(* lines for programs about arrays and jumps: two arrays, a DIM of another
   size for the same letter, jumps to present and to absent numbers *)
EffectPool == {
    Line(10, DimStmt("A", 2)),
    Line(20, DimStmt("A", 1)),
    Line(10, DimStmt("A", 0)),
    Line(20, DimStmt("B", 3)),
    Line(30, LetArrayStmt("A", Number(0), Number(7))),
    Line(30, LetArrayStmt("B", Number(2), Variable("A"))),
    Line(10, LetStmt("A", Number(1))),
    Line(20, LetStmt("B", Add(Variable("A"), Number(2)))),
    Line(30, PrintStmt(<<PrintExpr(ArrayAccess("A", Number(0))),
                         PrintExpr(Variable("A"))>>)),
    Line(30, PrintStmt(<<PrintString("X")>>)),
    Line(10, GotoStmt(30)),
    Line(20, IfStmt(Variable("A"), 99)),
    Line(40, GotoStmt(99)),
    Line(20, EndStmt)
}

EffectPrograms == SeqsUpTo(EffectPool, MaxLines)

InitEffects ==
    /\ build \in {"debug", "release"}
    /\ program \in EffectPrograms
    /\ pc = "ready"
    /\ InterpreterInit
    /\ source = ""
    /\ ppc = "off"
    /\ pass = 0
    /\ ParserInit

SpecEffects == InitEffects /\ [][Next]_vars


----------------------------------------------------------------------------
(* Properties of the interpreter *)

(* the loop of run executes one statement in this step *)
Executes(kind) ==
    /\ pc = "running"
    /\ steps' = steps + 1
    /\ CurrentStmt.k = kind

EvalNow(e) == eval_expr(e, variables, arrays, build)

NoLineNumbered(n) == \A i \in 1..Len(program) : program[i].number # n

(* the statement under the cursor yields a jump signal *)
Jumps ==
    \/ CurrentStmt.k = "Goto"
    \/ /\ CurrentStmt.k = "If"
       /\ EvalNow(CurrentStmt.condition).t = "Ok"
       /\ EvalNow(CurrentStmt.condition).v # 0

JumpTarget ==
    IF CurrentStmt.k = "Goto" THEN CurrentStmt.line ELSE CurrentStmt.then_line

\* C1: when a GOTO executes, or an IF executes with a nonzero condition,
\* and no line of the program has the target number, run returns
\* InvalidLineNumber(target), the cursor is not moved, and the run executes
\* no further statement.
C1_MissingTargetFails ==
    [][ /\ ( /\ Executes(CurrentStmt.k)
             /\ Jumps
             /\ NoLineNumbered(JumpTarget) )
           => /\ pc' = "returned"
              /\ result' = Err(InvalidLineNumber(JumpTarget))
              /\ line_index' = line_index
              /\ UNCHANGED <<variables, arrays, output>>
        /\ ( pc = "returned" /\ result.t = "Err" ) => pc' = "ready"
      ]_vars

C1_Witness ==
    /\ program = ProgGoto
    /\ pc = "returned"
    /\ result = Err(InvalidLineNumber(99))
    /\ steps = 1
    /\ output = <<>>

\* C2: an array LET to a dimensioned array X of size n whose index is
\* negative or >= n returns IndexOutOfBounds(X, index, n) and changes no
\* array; with the index in [0, n) it stores the value, and reading X(index)
\* afterwards yields that value.
C2_ArrayLetBounds ==
    [][ ( /\ Executes("LetArray")
          /\ CurrentStmt.name \in DOMAIN arrays
          /\ EvalNow(CurrentStmt.index).t = "Ok"
          /\ EvalNow(CurrentStmt.value).t = "Ok" )
        => LET X == CurrentStmt.name
               n == Len(arrays[X])
               i == EvalNow(CurrentStmt.index).v
               v == EvalNow(CurrentStmt.value).v
           IN  IF i < 0 \/ i >= n
               THEN /\ pc' = "returned"
                    /\ result' = Err(IndexOutOfBounds(X, i, n))
                    /\ arrays' = arrays
               ELSE /\ pc' = "running"
                    /\ Len(arrays'[X]) = n
                    /\ \A j \in 1..n :
                          arrays'[X][j] = IF j = i + 1 THEN v ELSE arrays[X][j]
                    /\ eval_expr(ArrayAccess(X, Number(i)),
                                 variables', arrays', build) = Ok(v)
      ]_vars
    /\ [](program = ProgDim /\ pc = "returned"
            => /\ output = <<"1">>
               /\ result = Err(IndexOutOfBounds("A", 5, 5))
               /\ arrays["A"] = <<0, 0, 0, 0, 1>>)

C2_Witness ==
    /\ program = ProgDim
    /\ pc = "returned"
    /\ output = <<"1">>
    /\ result = Err(IndexOutOfBounds("A", 5, 5))

(* the position of the first item of a PRINT whose evaluation gives no value,
   0 when every item gives one *)
FirstFailing(items) ==
    LET failing == {i \in 1..Len(items) :
                       items[i].k = "Expr" /\ EvalNow(items[i].e).t # "Ok"}
    IN  IF failing = {} THEN 0
        ELSE CHOOSE i \in failing : \A j \in failing : i <= j

\* C3: a PRINT one of whose items fails to evaluate emits nothing, not even
\* the texts of the items before the failing one, and the run returns the
\* error of that item.
C3_FailingPrintEmitsNothing ==
    [][ ( Executes("Print") /\ FirstFailing(CurrentStmt.items) # 0 )
        => LET f == EvalNow(CurrentStmt.items[FirstFailing(CurrentStmt.items)].e)
           IN  /\ output' = output
               /\ f.t = "Err" => pc' = "returned" /\ result' = f
      ]_vars
    /\ [](program = ProgDivZero /\ pc # "ready" /\ pc # "running"
            => result = Err(DivisionByZero) /\ output = <<>>)

C3_Witness ==
    /\ pc = "returned"
    /\ result = Err(DivisionByZero)
    /\ output = <<>>
    /\ last.index = 0
    /\ program[1].stmt.k = "Print"
    /\ program[1].stmt.items[1].k = "String"

\* C4: run always ends normally or by returning a RuntimeError; no
\* arithmetic operation on i32 operands ends the process by a panic.
C4_NeverPanics == pc # "crashed"

\* C5: every run starts with all 26 variables 0 and no array, whatever the
\* run before stored or dimensioned, and a second run of the same program
\* returns the same result after the same output as the first.
C5_RunsStartFresh ==
    /\ pc = "ready" =>
          /\ DOMAIN variables = Letters
          /\ \A c \in Letters : variables[c] = 0
          /\ DOMAIN arrays = {}
    /\ Len(history) >= 2 => history[2] = history[1]

\* C7: every letter A-Z is in the variable bank of a new Interpreter with
\* value 0 and keeps reading 0 until a LET to that letter executes.
C7_ZeroUntilAssigned ==
    \A c \in Letters \ assigned : c \in DOMAIN variables /\ variables[c] = 0

C7_Witness ==
    /\ pc = "running"
    /\ steps >= 2
    /\ assigned = {"A"}
    /\ variables["A"] # 0
    /\ variables["B"] = 0

\* C8: an IF moves the cursor to a line with its target number exactly when
\* its condition is nonzero, positive or negative, and otherwise to the next
\* position; the counting loop 10/20/30/40 returns Ok and its last output
\* line is 3.
C8_IfJumpsIffNonzero ==
    [][ ( Executes("If") /\ EvalNow(CurrentStmt.condition).t = "Ok" )
        => IF EvalNow(CurrentStmt.condition).v = 0
           THEN pc' = "running" /\ line_index' = line_index + 1
           ELSE \/ /\ NoLineNumbered(CurrentStmt.then_line)
                   /\ pc' = "returned"
                \/ /\ pc' = "running"
                   /\ line_index' < Len(program)
                   /\ program[line_index' + 1].number = CurrentStmt.then_line
      ]_vars
    /\ [](program = ProgLoop /\ pc = "returned"
            => result = Ok(None) /\ output = <<"3">>)

C8_Witness ==
    /\ program = ProgLoop
    /\ pc = "returned"
    /\ output = <<"3">>
    /\ steps = 6

(* the value a decimal text denotes, accumulated below zero so that the
   text of MinI32 has one *)
RECURSIVE NegValueOf(_, _)
NegValueOf(text, acc) ==
    IF Len(text) = 0 THEN acc
    ELSE LET d == CHOOSE x \in 0..9 : SubSeq(DigitChars, x + 1, x + 1) = Head(text)
         IN  NegValueOf(Tail(text), acc * 10 - d)

IsDecimalOf(text, v) ==
    /\ Len(text) >= 1
    /\ IF v < 0
       THEN /\ Head(text) = "-"
            /\ Len(text) >= 2
            /\ SubSeq(text, 2, 2) # "0"
            /\ \A i \in 2..Len(text) : \E x \in 1..10 : SubSeq(text, i, i) = SubSeq(DigitChars, x, x)
            /\ NegValueOf(Tail(text), 0) = v
       ELSE /\ Len(text) > 1 => Head(text) # "0"
            /\ \A i \in 1..Len(text) : \E x \in 1..10 : SubSeq(text, i, i) = SubSeq(DigitChars, x, x)
            /\ NegValueOf(text, 0) = -v

(* line is the texts of items with one space between neighbours; the text
   of an expression item runs to the next space *)
RECURSIVE LineMatches(_, _)
LineMatches(line, items) ==
    LET item  == Head(items)
        stops == {i \in 1..Len(line) : SubSeq(line, i, i) = " "}
        width == IF item.k = "String" THEN Len(item.s)
                 ELSE IF stops = {} THEN Len(line)
                 ELSE (CHOOSE i \in stops : \A j \in stops : i <= j) - 1
        text  == SubSeq(line, 1, width)
        rest  == SubSeq(line, width + 1, Len(line))
    IN  /\ width <= Len(line)
        /\ IF item.k = "String" THEN text = item.s
           ELSE IsDecimalOf(text, EvalNow(item.e).v)
        /\ IF Len(items) = 1 THEN rest = ""
           ELSE /\ Len(rest) >= 1
                /\ SubSeq(rest, 1, 1) = " "
                /\ LineMatches(SubSeq(rest, 2, Len(rest)), Tail(items))

\* C9: a PRINT all of whose items evaluate emits exactly one line after the
\* earlier ones: the item texts left to right with one space between
\* neighbours, a string as written and an expression as the decimal text of
\* its value; no item gives the empty line.
C9_PrintOneLine ==
    [][ ( Executes("Print") /\ FirstFailing(CurrentStmt.items) = 0 )
        => /\ Len(output') = Len(output) + 1
           /\ SubSeq(output', 1, Len(output)) = output
           /\ IF Len(CurrentStmt.items) = 0
              THEN output'[Len(output')] = ""
              ELSE LineMatches(output'[Len(output')], CurrentStmt.items)
      ]_vars
    /\ [](program = ProgPrint /\ pc = "returned" => output = <<"A 3 B">>)

C9_Witness ==
    /\ program = ProgPrint
    /\ pc = "returned"
    /\ output = <<"A 3 B">>

----------------------------------------------------------------------------
(* Properties of the parser and the renderer *)

\* C6: for every text that parses, parsing the rendering of the parsed
\* lines returns the same program: as many lines, with the same numbers and
\* the same statements.
C6_RenderingParsesBack ==
    ( pass = 2 /\ ppc \in {"parsed", "failed", "crashed"} )
    => /\ parsed.t = "Ok"
       /\ Len(parsed.v) = Len(first.v)
       /\ \A i \in 1..Len(parsed.v) :
             /\ parsed.v[i].number = first.v[i].number
             /\ parsed.v[i].stmt = first.v[i].stmt

(* the bijections of 1..n *)
Bijections(n) == {f \in [1..n -> 1..n] : \A i, j \in 1..n : f[i] = f[j] => i = j}

\* C10: parse returns the lines it parsed in non-decreasing order of line
\* number, each exactly once, lines with equal numbers in the order in which
\* they were written.
C10_StableSortedPermutation ==
    ppc = "parsed"
    => LET n == Len(collected) IN
       /\ parsed.t = "Ok"
       /\ Len(parsed.v) = n
       /\ \A i \in 1..(n - 1) : parsed.v[i].number <= parsed.v[i + 1].number
       /\ \E f \in Bijections(n) :
             /\ \A i \in 1..n : parsed.v[i] = collected[f[i]]
             /\ \A i, j \in 1..n :
                   ( i < j /\ parsed.v[i].number = parsed.v[j].number )
                   => f[i] < f[j]

C10_Witness ==
    /\ ppc = "parsed"
    /\ pass = 1
    /\ source = TextDuplicates
    /\ Len(parsed.v) = 5
    /\ parsed.v[2].stmt.k = "Let"
    /\ parsed.v[3].stmt.k = "Goto"
    /\ parsed.v[4].stmt.k = "Print"
    /\ parsed.v # collected

\* C11: for every i32 value n from 0 up, tokenize of the decimal text of n
\* succeeds with exactly one token, Number(n).
C11_LiteralTokenizes ==
    \A n \in Literals :
        ( pass = 1 /\ source = to_string(n) /\ ppc # "lexing" )
        => tokens = <<TokNumber(n)>>

C11_Witness ==
    /\ pass = 1
    /\ source = "2147483647"
    /\ ppc = "parsing"
    /\ tokens = <<TokNumber(MaxI32)>>

(* the statement executed last in the current run was an END *)
EndExecuted == last.index >= 0 /\ program[last.index + 1].stmt.k = "End"

\* C12: a run stops running only by returning Ok after an executed END or
\* with the cursor past the last line, or in the step that executes a failing
\* statement; after an executed END and after the run has ended no statement
\* is executed until another run is started.
C12_TerminatedIsAbsorbing ==
    [][ /\ ( pc = "running" /\ pc' # "running" )
           => \/ /\ pc' = "returned"
                 /\ result' = Ok(None)
                 /\ steps' = steps
                 /\ EndExecuted \/ line_index >= Len(program)
              \/ /\ pc' \in {"returned", "crashed"}
                 /\ result'.t \in {"Err", "Panic"}
                 /\ steps' = steps + 1
        /\ ( pc = "running" /\ EndExecuted )
           => pc' = "returned" /\ steps' = steps
        /\ ( pc = "ready" /\ pc' # "ready" )
           => steps' = steps /\ ( pc' = "returned" => Len(program) = 0 )
        /\ pc \in {"returned", "crashed"}
           => pc' = "ready" /\ steps' = 0
      ]_vars

C12_Witness ==
    /\ pc = "returned"
    /\ result = Ok(None)
    /\ EndExecuted
    /\ steps = 2
    /\ line_index = 2
    /\ Len(program) = 3

\* C13: the step in which a statement fails with a RuntimeError changes no
\* variable, no array and no output line: what the statements before it
\* stored and printed is what the failed run leaves.
C13_FailureChangesNothing ==
    [][ ( pc = "running" /\ pc' = "returned" /\ result'.t = "Err" )
        => /\ steps' = steps + 1
           /\ UNCHANGED <<variables, arrays, output>>
      ]_vars

C13_Witness ==
    /\ program = ProgDim
    /\ pc = "returned"
    /\ result.t = "Err"
    /\ steps = 4
    /\ arrays["A"][5] = 1
    /\ Len(output) = 1

(* numbered lines of SrcLinePool whose statement is malformed *)
MalformedLines == {"10 LET A 5", "10 LET AB = 1", "20 PRINT \"open"}

(* text has l as one of its lines *)
HasLine(text, l) ==
    \E i \in 1..(Len(text) - Len(l) + 1) :
        /\ SubSeq(text, i, i + Len(l) - 1) = l
        /\ i = 1 \/ SubSeq(text, i - 1, i - 1) = "\n"
        /\ i + Len(l) - 1 = Len(text) \/ SubSeq(text, i + Len(l), i + Len(l)) = "\n"

\* C14 as stated: parse of a text one of whose numbered lines has a malformed
\* statement never returns Ok.
C14_AnyMalformedLineFails ==
    ( pass = 1 /\ \E l \in MalformedLines : HasLine(source, l) )
    => ppc # "parsed"

\* C14 amended: when parse_line fails on a line, or tokenize fails, parse
\* returns that error and none of the lines, the lines collected before
\* included; each of MalformedLines alone makes parse fail.
C14_FirstErrorAborts ==
    [][ ( ppc = "parsing" /\ parse_line(tokens, cursor + 1).t = "Err" )
        => /\ ppc' = "failed"
           /\ parsed' = Err(parse_line(tokens, cursor + 1).e)
           /\ lines' = <<>>
      ]_vars
    /\ [](ppc = "failed" => parsed.t = "Err" /\ lines = <<>>)
    /\ [](pass = 1 /\ source \in MalformedLines => ppc # "parsed")

C14_Witness ==
    /\ pass = 1
    /\ source = "10 LET A = 1\n10 LET A 5"
    /\ ppc = "failed"
    /\ cursor = 5
    /\ parsed.t = "Err"
    /\ parsed.e.kind = "UnexpectedToken"
    /\ lines = <<>>

\* C15: the text 10 DIM A(-1) parses to the one line 10 DIM A with size -1,
\* and executing that statement returns IndexOutOfBounds and leaves the
\* arrays as they were.
C15_NegativeDimParsesThenFails ==
    /\ ( pass = 1 /\ source = TextDimNegative
           /\ ppc \in {"parsed", "failed", "crashed"} )
       => parsed = Ok(<<Line(10, DimStmt("A", -1))>>)
    /\ LET r == exec_dim(DimStmt("A", -1), State, build)
       IN  r.res = Err(IndexOutOfBounds("A", -1, 0)) /\ r.st = State

(* index values, the ends of the i32 range included *)
Indices == {MinI32, -1, 0, 1, 5, MaxI32}

----------------------------------------------------------------------------
(* Properties of a RUN: parse, then the run of the parsed program *)

(* the variable and array names an expression mentions *)
RECURSIVE NamesOfExpr(_)
NamesOfExpr(e) ==
    IF e.k = "Variable" THEN {e.c}
    ELSE IF e.k = "ArrayAccess" THEN {e.c} \cup NamesOfExpr(e.index)
    ELSE IF e.k = "Binary" THEN NamesOfExpr(e.left) \cup NamesOfExpr(e.right)
    ELSE {}

(* the names a statement mentions *)
NamesOfStmt(stmt) ==
    IF stmt.k = "Print"
    THEN UNION {NamesOfExpr(stmt.items[i].e) :
                   i \in {j \in 1..Len(stmt.items) : stmt.items[j].k = "Expr"}}
    ELSE IF stmt.k = "Let" THEN {stmt.var} \cup NamesOfExpr(stmt.value)
    ELSE IF stmt.k = "LetArray"
    THEN {stmt.name} \cup NamesOfExpr(stmt.index) \cup NamesOfExpr(stmt.value)
    ELSE IF stmt.k = "If" THEN NamesOfExpr(stmt.condition)
    ELSE IF stmt.k = "Dim" THEN {stmt.name}
    ELSE {}

\* C17: every identifier token and every name in a parsed line is one of the
\* letters A-Z, the variable bank holds all of A-Z in every state, and no
\* run of a parsed program returns UndefinedVariable.
C17_NoUndefinedVariable ==
    /\ \A i \in 1..Len(tokens) : tokens[i].k = "Ident" => tokens[i].c \in Letters
    /\ \A i \in 1..Len(lines) : NamesOfStmt(lines[i].stmt) \subseteq Letters
    /\ \A i \in 1..Len(program) : NamesOfStmt(program[i].stmt) \subseteq Letters
    /\ DOMAIN variables = Letters
    /\ result # None /\ result.t = "Err" => result.e.kind # "UndefinedVariable"

(* the run of the text 10 let a(i) = -b * (c - 2) / d, 30 PRINT a: its
   names were written in lower case *)
C17_Witness ==
    /\ pass = 2
    /\ Len(program) = 2
    /\ program[2].stmt = PrintStmt(<<PrintExpr(Variable("A"))>>)
    /\ program[1].stmt.k = "LetArray"
    /\ program[1].stmt.index = Variable("I")
    /\ pc = "returned"
    /\ result = Err(DivisionByZero)

(* numbered lines of SrcLinePool with one well-formed statement and no
   trailing comma *)
WellFormedLines ==
    {l \in SrcLinePool : l \notin MalformedLines
                          /\ l \notin {"GOTO 10", "20 PRINT \"X Y\" , A(1) >= 2, "}}

(* the number written at the start of a source line *)
NumberWritten(l) == LexNumber(l, 1, 0, "release").res.v

RECURSIVE NumbersWritten(_)
NumbersWritten(ls) ==
    IF Len(ls) = 0 THEN <<>>
    ELSE <<[number |-> NumberWritten(ls[1])]>> \o NumbersWritten(Tail(ls))

\* C20: for every text made of k well-formed numbered lines, a PRINT without
\* items followed by another line included, parse returns exactly k lines
\* whose numbers are the numbers written at the start of the source lines.
C20_OneLinePerSourceLine ==
    ( pass = 1 /\ ppc \in {"parsed", "failed", "crashed"} ) =>
        \A ls \in SeqsUpTo(WellFormedLines, MaxSrcLines) :
            ( Len(ls) > 0 /\ source = JoinLines(ls) ) =>
                /\ parsed.t = "Ok"
                /\ Len(parsed.v) = Len(ls)
                /\ \A i \in 1..Len(ls) :
                      parsed.v[i].number = sort_by_key(NumbersWritten(ls))[i].number

----------------------------------------------------------------------------
(* Properties of a RUN, continued *)

(* C18: a run in which every jump taken so far landed after the line that
   jumped (in particular a run of a program without GOTO and IF) terminates
   after at most as many statements as the program has lines: the number of
   statements executed never exceeds the cursor nor the length of the
   program, the loop is never cut short by the step bound, and every
   iteration either leaves the loop or executes one statement and moves the
   cursor forward *)
C18_ForwardRunTerminates ==
    /\ []( (pc \in {"running", "returned", "crashed"} /\ ~backward) =>
             /\ steps <= Len(program)
             /\ line_index <= Len(program)
             /\ pc = "running" => steps <= line_index )
    /\ []( (pc = "running" /\ ~backward /\ LoopCondition) =>
             /\ steps < MaxSteps
             /\ CurrentStmt.k \in {"Print", "Let", "LetArray", "Goto", "If",
                                   "End", "Dim"} )
    /\ [][ pc = "running" =>
             \/ pc' # "running"
             \/ /\ steps' = steps + 1
                /\ ~backward' => line_index' > line_index ]_vars

C18_Witness ==
    /\ Len(program) = 3
    /\ program[1].stmt = GotoStmt(30)
    /\ program[3].number = 30
    /\ pc = "returned"
    /\ result = Ok(None)
    /\ ~backward
    /\ steps = 2
    /\ line_index = 3

(* C19: the evaluator executes the list in the order given, whatever the
   line numbers are: the first statement executed is the one at position 0,
   the statement executed after a statement at position i that yielded no
   jump is the one at position i + 1, and the list is never reordered *)
C19_ListOrder ==
    /\ [][ steps' = steps + 1 =>
             /\ last'.index = line_index
             /\ steps = 0 => line_index = 0
             /\ (steps > 0 /\ last.res = Ok(None)) => line_index = last.index + 1 ]_vars
    /\ [][ program' = program ]_vars

C19_Witness ==
    /\ Len(program) = 2
    /\ program[1].number > program[2].number
    /\ program[1].stmt.k = "Let"
    /\ pc = "returned"
    /\ result = Ok(None)
    /\ steps = 2
    /\ last.index = 1

----------------------------------------------------------------------------
(* Properties of the parser, continued *)

\* C21: where parse_program expects a line and the tokens are exhausted or
\* the next token is not a number, it stops and parse returns Ok with the
\* lines collected so far, sorted; the tokens that remain are left unread
\* without an error; a statement without a line number parses to no lines.
C21_StopsAtFirstNonNumber ==
    /\ [][ ( ppc = "parsing"
             /\ ( cursor = Len(tokens) \/ tokens[cursor + 1].k # "Number" ) )
           => /\ ppc' = "parsed"
              /\ parsed' = Ok(sort_by_key(lines))
              /\ collected' = lines
              /\ cursor' = cursor ]_vars
    /\ []( ppc = "parsed" =>
             /\ parsed.t = "Ok"
             /\ parsed.v = sort_by_key(collected)
             /\ ( cursor = Len(tokens) \/ tokens[cursor + 1].k # "Number" ) )
    /\ []( ( pass = 1 /\ source = "GOTO 10" /\ ppc \in {"parsed", "failed", "crashed"} )
            => parsed = Ok(<<>>) )

C21_Witness ==
    /\ pass = 1
    /\ source = "10 LET A = 1\nGOTO 10"
    /\ ppc = "parsed"
    /\ parsed.t = "Ok"
    /\ Len(parsed.v) = 1
    /\ parsed.v[1].number = 10
    /\ cursor = 5
    /\ Len(tokens) = 7
    /\ tokens[cursor + 1].k = "Goto"

----------------------------------------------------------------------------
(* Effects of the statements *)

\* C22: when DIM X(n) with n >= 0 executes, X has exactly n elements
\* afterwards, all 0, whatever X held before; every other array and every
\* variable is as it was, and the run goes on.
C22_DimReallocates ==
    [][ ( Executes("Dim") /\ CurrentStmt.size >= 0 )
        => LET X == CurrentStmt.name
               n == CurrentStmt.size
           IN  /\ DOMAIN arrays' = DOMAIN arrays \cup {X}
               /\ Len(arrays'[X]) = n
               /\ \A j \in 1..n : arrays'[X][j] = 0
               /\ \A c \in DOMAIN arrays \ {X} : arrays'[c] = arrays[c]
               /\ variables' = variables
               /\ pc' = "running"
      ]_vars

C22_Witness ==
    /\ program = << Line(10, DimStmt("A", 2)),
                    Line(30, LetArrayStmt("A", Number(0), Number(7))),
                    Line(20, DimStmt("A", 1)) >>
    /\ pc = "returned"
    /\ steps = 3
    /\ last.index = 2
    /\ arrays["A"] = <<0>>

\* C23: a LET of X changes no variable other than X and no array; an array
\* LET changes no variable, no other array, and of its own array only the
\* element addressed; PRINT, GOTO, IF and END change no variable and no
\* array; no statement changes the program.
C23_EffectsConfined ==
    /\ [][ Executes("Let") =>
             /\ \A c \in Letters \ {CurrentStmt.var} : variables'[c] = variables[c]
             /\ DOMAIN variables' = DOMAIN variables
             /\ arrays' = arrays ]_vars
    /\ [][ Executes("LetArray") =>
             /\ variables' = variables
             /\ DOMAIN arrays' = DOMAIN arrays
             /\ \A c \in DOMAIN arrays :
                   /\ Len(arrays'[c]) = Len(arrays[c])
                   /\ \A j \in 1..Len(arrays[c]) :
                         arrays'[c][j] # arrays[c][j]
                         => /\ c = CurrentStmt.name
                            /\ EvalNow(CurrentStmt.index) = Ok(j - 1) ]_vars
    /\ [][ ( Executes("Print") \/ Executes("Goto") \/ Executes("If")
             \/ Executes("End") )
           => ( variables' = variables /\ arrays' = arrays ) ]_vars
    /\ [][ Executes(CurrentStmt.k) => program' = program ]_vars

C23_Witness ==
    /\ program = << Line(20, DimStmt("B", 3)),
                    Line(10, LetStmt("A", Number(1))),
                    Line(30, LetArrayStmt("B", Number(2), Variable("A"))) >>
    /\ pc = "returned"
    /\ result = Ok(None)
    /\ steps = 3
    /\ arrays["B"] = <<0, 0, 1>>
    /\ variables["A"] = 1
    /\ \A c \in Letters \ {"A"} : variables[c] = 0

----------------------------------------------------------------------------
(* Properties of the parser: expressions *)

Var(c) == Variable(c)
Mul(l, r) == Binary(l, "Mul", r)
Div(l, r) == Binary(l, "Div", r)
Neg(e) == Binary(Number(0), "Sub", e)

(* the tree each of ExprSources stands for: * and / before + and -, these
   before a comparison, + - and * / grouped from the left, a leading -
   applied to the unary term that follows as 0 - term, parentheses first *)
ExprTrees == {
    <<"A + B * C", Add(Var("A"), Mul(Var("B"), Var("C")))>>,
    <<"A * B + C", Add(Mul(Var("A"), Var("B")), Var("C"))>>,
    <<"A - B - C", Sub(Sub(Var("A"), Var("B")), Var("C"))>>,
    <<"A / B * C", Mul(Div(Var("A"), Var("B")), Var("C"))>>,
    <<"1 + 2 - 3 + 4", Add(Sub(Add(Number(1), Number(2)), Number(3)), Number(4))>>,
    <<"8 * 4 / 2 * 3", Mul(Div(Mul(Number(8), Number(4)), Number(2)), Number(3))>>,
    <<"A - B / C < D + E * F",
      Binary(Sub(Var("A"), Div(Var("B"), Var("C"))), "Lt",
             Add(Var("D"), Mul(Var("E"), Var("F"))))>>,
    <<"A + 1 >= B - 1",
      Binary(Add(Var("A"), Number(1)), "Ge", Sub(Var("B"), Number(1)))>>,
    <<"-A * B", Mul(Neg(Var("A")), Var("B"))>>,
    <<"--A", Neg(Neg(Var("A")))>>,
    <<"A * -B", Mul(Var("A"), Neg(Var("B")))>>,
    <<"A - -B", Sub(Var("A"), Neg(Var("B")))>>,
    <<"-A - B", Sub(Neg(Var("A")), Var("B"))>>,
    <<"-(A + B)", Neg(Add(Var("A"), Var("B")))>>,
    <<"(A + B) * C", Mul(Add(Var("A"), Var("B")), Var("C"))>>,
    <<"A - (B - C)", Sub(Var("A"), Sub(Var("B"), Var("C")))>>,
    <<"A / (B * C)", Div(Var("A"), Mul(Var("B"), Var("C")))>>,
    <<"(A < B) + 1", Add(Binary(Var("A"), "Lt", Var("B")), Number(1))>>,
    <<"-A(1 + 2) * 3",
      Mul(Neg(ArrayAccess("A", Add(Number(1), Number(2)))), Number(3))>>
}

\* C24: the parser builds each expression by the ladder comparison over
\* additive over multiplicative over unary over primary: every one of
\* ExprSources, written as the value of a LET, parses to the one line whose
\* value is the tree of ExprTrees, and every source has such a tree.
C24_PrecedenceLadder ==
    /\ {t[1] : t \in ExprTrees} = ExprSources
    /\ \A t \in ExprTrees :
          ( pass = 1 /\ source = "10 LET X = " \o t[1]
            /\ ppc \in {"parsed", "failed", "crashed"} )
          => parsed = Ok(<<Line(10, LetStmt("X", t[2]))>>)

C24_Witness ==
    /\ pass = 1
    /\ source = "10 LET X = A - B / C < D + E * F"
    /\ ppc = "parsed"
    /\ parsed.v[1].stmt.value.op = "Lt"
    /\ parsed.v[1].stmt.value.left.op = "Sub"
    /\ parsed.v[1].stmt.value.right.right.op = "Mul"

----------------------------------------------------------------------------
(* Jumps *)

(* an earlier line of the program has the number of the line at position i *)
LaterDuplicate(i) == \E j \in 1..i : program[j].number = program[i + 1].number

\* C25: a jump that is taken to a number some line has moves the cursor to
\* the first line with that number in storage order, also when several
\* lines have it; whenever the running cursor stands on a line that repeats
\* the number of an earlier line, the statement executed last is the one
\* just before it and yielded no jump.
C25_JumpToFirstDuplicate ==
    /\ [][ ( Executes(CurrentStmt.k) /\ Jumps /\ ~NoLineNumbered(JumpTarget) )
           => /\ pc' = "running"
              /\ program[line_index' + 1].number = JumpTarget
              /\ \A j \in 1..line_index' : program[j].number # JumpTarget ]_vars
    /\ []( ( pc = "running" /\ line_index < Len(program)
             /\ LaterDuplicate(line_index) )
           => /\ steps > 0
              /\ last.index = line_index - 1
              /\ last.res = Ok(None) )

C25_Witness ==
    /\ program = << Line(10, GotoStmt(30)),
                    Line(30, PrintStmt(<<PrintString("X")>>)),
                    Line(30, LetArrayStmt("A", Number(0), Number(7))) >>
    /\ pc = "returned"
    /\ output = <<"X">>
    /\ steps = 3
    /\ last.index = 2
    /\ result = Err(ArrayNotDimensioned("A"))

\* C26: a jump target is looked up only when the jump is taken: an IF whose
\* condition is 0 goes on to the next position whether or not a line has
\* its target number, and a run returns InvalidLineNumber(n) only after it
\* executed, as its last statement, a GOTO n or an IF .. THEN n that yielded
\* the jump.
C26_TargetCheckedWhenTaken ==
    /\ [][ ( Executes("If") /\ EvalNow(CurrentStmt.condition) = Ok(0) )
           => /\ pc' = "running"
              /\ line_index' = line_index + 1
              /\ result' = result ]_vars
    /\ []( ( pc = "returned" /\ result.t = "Err"
             /\ result.e.kind = "InvalidLineNumber" )
           => /\ steps > 0
              /\ last.res = Ok(Some(result.e.line))
              /\ NamedTarget(program[last.index + 1].stmt) = result.e.line
              /\ NoLineNumbered(result.e.line) )

C26_Witness ==
    /\ program = << Line(20, IfStmt(Variable("A"), 99)),
                    Line(20, EndStmt),
                    Line(40, GotoStmt(99)) >>
    /\ pc = "returned"
    /\ result = Ok(None)
    /\ steps = 2
    /\ last.index = 1
    /\ NoLineNumbered(99)

====
